---- MODULE Spec2Model ----
(***************************************************************************)
(* A model of the relay multiplexer of mev-boost-rs                        *)
(* (mev-boost-rs/src/relay_mux.rs): RelayMux::fetch_best_bid, open_bid,    *)
(* register_validators, on_slot, with the helpers validate_bid,            *)
(* select_best_bids and bid_key_from.                                      *)
(*                                                                         *)
(* Rust vectors are TLA+ sequences; a vector position i (0-based, as in    *)
(* the code) is read with At(v, i) and is in bounds iff InBounds(v, i).    *)
(* Relay indices are the 0-based positions of RelayMuxInner.relays.        *)
(***************************************************************************)
EXTENDS Integers, Sequences, FiniteSets, TLC

\* ------------------------------------------------------------------ bounds
\* relays configured in Spec
NumRelays == 2
\* bid values are 0..MaxValue
MaxValue == 2
\* block hashes and parent hashes are 1..NumHashes
NumHashes == 2
\* slots of requests, blocks and ticks are 0..MaxSlot
MaxSlot == 2
\* proposer public keys are 1..NumProposers
NumProposers == 2
\* select_best_bids is applied to lists of at most MaxBids pairs
MaxBids == 3
\* the width of Slot (u64) in the model: slots are below 2^SlotBits
SlotBits == 4

\* ------------------------------------------------------------- value sets
Values == 0..MaxValue
Hashes == 1..NumHashes
Slots == 0..MaxSlot
\* 2^width of Slot, and the largest Slot (u64::MAX)
SlotModulus == 2 ^ SlotBits
SlotMaxValue == SlotModulus - 1
\* BlsPublicKey::default(), the value of State::latest_pubkey after new()
DefaultPubkey == 0
ProposerKeys == 1..NumProposers
\* the public key relay i advertises (Relay::public_key), distinct per relay
\* and from the proposers' keys
RelayKey(i) == NumProposers + 2 + i
\* a key no relay advertises
ForeignKey == NumProposers + 1

Range(s) == {s[i] : i \in DOMAIN s}
\* v[i] of a Rust Vec: positions are 0-based
At(v, i) == v[i + 1]
\* v[i] panics (index out of bounds) unless this holds
InBounds(v, i) == i >= 0 /\ i < Len(v)
\* every ordering of the elements of s (what SliceRandom::shuffle can produce)
Shuffles(s) ==
    {[i \in 1..Len(s) |-> s[p[i]]] :
        p \in {q \in [1..Len(s) -> 1..Len(s)] : \A a, b \in 1..Len(s) : q[a] = q[b] => a = b}}

\* BidRequest { slot, parent_hash, public_key }
BidRequest(slot, parent_hash, public_key) ==
    [slot |-> slot, parent_hash |-> parent_hash, public_key |-> public_key]
BidRequests == {BidRequest(s, h, k) : s \in Slots, h \in Hashes, k \in ProposerKeys}

\* SignedBuilderBid: value(), block_hash(), public_key(), and whether its
\* signature verifies under the builder domain for the key it states
SignedBuilderBid(value, block_hash, public_key, sig_ok) ==
    [value |-> value, block_hash |-> block_hash, public_key |-> public_key, sig_ok |-> sig_ok]
NoBid == SignedBuilderBid(0, 0, 0, FALSE)

\* SignedBlindedBeaconBlock: slot(), parent_hash(), block_hash()
SignedBlindedBeaconBlock(slot, parent_hash, block_hash) ==
    [slot |-> slot, parent_hash |-> parent_hash, block_hash |-> block_hash]
BlindedBlocks == {SignedBlindedBeaconBlock(s, p, h) : s \in Slots, p \in Hashes, h \in Hashes}

\* what one relay task of fetch_best_bid yields:
\* Ok(Ok(bid)), Ok(Err(err)) or Err(Elapsed)
RespBid(bid) == [kind |-> "bid", bid |-> bid]
RespErr == [kind |-> "err", bid |-> NoBid]
RespTimeout == [kind |-> "timeout", bid |-> NoBid]

\* what one relay answers to open_bid: Ok(payload) or Err(err)
Payload(block_hash) == [kind |-> "payload", block_hash |-> block_hash]
PayloadErr == [kind |-> "err", block_hash |-> 0]
OpenResponses == {Payload(h) : h \in Hashes} \cup {PayloadErr}


\* --------------------------------------------------------- pure functions
\* validate_bid without the verification of the signature
validate_bid_key_only(bid, public_key) ==
    IF bid.public_key # public_key
    THEN [kind |-> "BidPublicKeyMismatch", bid |-> bid.public_key, relay |-> public_key]
    ELSE [kind |-> "Ok", bid |-> 0, relay |-> 0]

\* validate_bid without the comparison of the public keys
validate_bid_signature_only(bid, public_key) ==
    IF bid.sig_ok
    THEN [kind |-> "Ok", bid |-> 0, relay |-> 0]
    ELSE [kind |-> "InvalidSignature", bid |-> 0, relay |-> 0]

\* validate_bid verifying the signature before it compares the keys
validate_bid_signature_first(bid, public_key) ==
    IF ~bid.sig_ok
    THEN [kind |-> "InvalidSignature", bid |-> 0, relay |-> 0]
    ELSE IF bid.public_key # public_key
         THEN [kind |-> "BidPublicKeyMismatch", bid |-> bid.public_key, relay |-> public_key]
         ELSE [kind |-> "Ok", bid |-> 0, relay |-> 0]

\* validate_bid: the bid must state the relay's advertised key, and its
\* signature must verify
validate_bid(bid, public_key) ==
    IF bid.public_key # public_key
    THEN [kind |-> "BidPublicKeyMismatch", bid |-> bid.public_key, relay |-> public_key]
    ELSE IF bid.sig_ok
         THEN [kind |-> "Ok", bid |-> 0, relay |-> 0]
         ELSE [kind |-> "InvalidSignature", bid |-> 0, relay |-> 0]

\* the fold step without relay_indices.clear()
SelectStepNoClear(acc, item) ==
    LET raised == IF item.value > acc.best_value
                  THEN [acc EXCEPT !.best_value = item.value]
                  ELSE acc
    IN  IF item.value = raised.best_value
        THEN [raised EXCEPT !.relay_indices = Append(@, item.index)]
        ELSE raised

\* the fold step putting the index in front instead of pushing it
SelectStepPrepends(acc, item) ==
    LET cleared == IF item.value > acc.best_value
                   THEN [best_value |-> item.value, relay_indices |-> <<>>]
                   ELSE acc
    IN  IF item.value = cleared.best_value
        THEN [cleared EXCEPT !.relay_indices = <<item.index>> \o @]
        ELSE cleared

\* the fold step treating the initial best_value as "no bid yet": an item of
\* value zero is never pushed
SelectStepPositiveOnly(acc, item) ==
    LET cleared == IF item.value > acc.best_value
                   THEN [best_value |-> item.value, relay_indices |-> <<>>]
                   ELSE acc
    IN  IF item.value = cleared.best_value /\ item.value > 0
        THEN [cleared EXCEPT !.relay_indices = Append(@, item.index)]
        ELSE cleared

\* one step of the fold of select_best_bids over an item [value, index]
SelectStep(acc, item) ==
    LET cleared == IF item.value > acc.best_value
                   THEN [best_value |-> item.value, relay_indices |-> <<>>]
                   ELSE acc
    IN  IF item.value = cleared.best_value
        THEN [cleared EXCEPT !.relay_indices = Append(@, item.index)]
        ELSE cleared

RECURSIVE SelectFold(_, _)
SelectFold(acc, bids) ==
    IF bids = <<>> THEN acc ELSE SelectFold(SelectStep(acc, Head(bids)), Tail(bids))

\* select_best_bids: the indices of the most valuable bids, best_value
\* starting at U256::zero()
select_best_bids(bids) ==
    SelectFold([best_value |-> 0, relay_indices |-> <<>>], bids).relay_indices

\* the loop over the collected responses in fetch_best_bid: the bids vector
\* holds (bid, relay_index) for every bid that passed validate_bid, in the
\* order the relay tasks completed
RECURSIVE CollectBids(_, _)
CollectBids(rs, responses) ==
    IF responses = <<>> THEN <<>>
    ELSE LET r == Head(responses)
             relay_public_key == At(rs, r.relay_index)
             rest == CollectBids(rs, Tail(responses))
         IN  IF r.response.kind = "bid"
                /\ validate_bid(r.response.bid, relay_public_key).kind = "Ok"
             THEN <<[bid |-> r.response.bid, relay_index |-> r.relay_index]>> \o rest
             ELSE rest

\* one pass of the loop over responses with a relay error counted as a
\* timeout as well
CountStepErrorsAsTimeouts(acc, relay_public_key, response) ==
    [requests |-> Append(acc.requests, relay_public_key),
     invalid_bids |->
        IF response.kind = "bid" /\ validate_bid(response.bid, relay_public_key).kind # "Ok"
        THEN Append(acc.invalid_bids, relay_public_key)
        ELSE acc.invalid_bids,
     timeouts |->
        IF response.kind \in {"timeout", "err"}
        THEN Append(acc.timeouts, relay_public_key)
        ELSE acc.timeouts]

\* the counters one pass of the loop over responses increments:
\* API_REQUESTS_COUNTER{GetHeader} always, AUCTION_INVALID_BIDS_COUNTER when
\* validate_bid fails, API_TIMEOUT_COUNTER{GetHeader} on Err(..)
CountStep(acc, relay_public_key, response) ==
    [requests |-> Append(acc.requests, relay_public_key),
     invalid_bids |->
        IF response.kind = "bid" /\ validate_bid(response.bid, relay_public_key).kind # "Ok"
        THEN Append(acc.invalid_bids, relay_public_key)
        ELSE acc.invalid_bids,
     timeouts |->
        IF response.kind = "timeout"
        THEN Append(acc.timeouts, relay_public_key)
        ELSE acc.timeouts]

\* the loop over responses, for its counters
RECURSIVE CountFold(_, _, _)
CountFold(acc, rs, responses) ==
    IF responses = <<>> THEN acc
    ELSE LET r == Head(responses)
         IN  CountFold(CountStep(acc, At(rs, r.relay_index), r.response), rs, Tail(responses))

\* the labels of the counter increments of one fetch_best_bid call
CountResponses(rs, responses) ==
    CountFold([requests |-> <<>>, invalid_bids |-> <<>>, timeouts |-> <<>>], rs, responses)

\* the (value, index) pairs handed to select_best_bids
BidValues(bids) ==
    [k \in 1..Len(bids) |-> [value |-> bids[k].bid.value, index |-> bids[k].relay_index]]

\* bids[*index]: the entry of the bids vector read for a selected index
BidAt(bids, index) == At(bids, index)

\* every read bids[*index] of fetch_best_bid is in bounds for this shuffle
ReadsInBounds(bids, shuffled) ==
    \A k \in 1..Len(shuffled) : InBounds(bids, shuffled[k])

\* relay_indices without the comparison of the block hashes
TieBreakKeepsAll(bids, shuffled) == shuffled

\* relay_indices without the best index: only the rest whose bids[*index] has
\* the block hash of bids[*best_index]
TieBreakRestOnly(bids, shuffled) ==
    LET best_index == Head(shuffled)
        best_block_hash == BidAt(bids, best_index).bid.block_hash
        same(index) == BidAt(bids, index).bid.block_hash = best_block_hash
    IN  SelectSeq(Tail(shuffled), same)

\* relay_indices: the best index, then the rest whose bids[*index] has the
\* block hash of bids[*best_index]
TieBreak(bids, shuffled) ==
    LET best_index == Head(shuffled)
        best_block_hash == BidAt(bids, best_index).bid.block_hash
        same(index) == BidAt(bids, index).bid.block_hash = best_block_hash
    IN  <<best_index>> \o SelectSeq(Tail(shuffled), same)

\* bid_key_from taking the block's own hash for its parent hash
bid_key_from_block_hash(signed_block, public_key) ==
    BidRequest(signed_block.slot, signed_block.block_hash, public_key)

\* bid_key_from ignoring the latest proposer key
bid_key_from_default(signed_block, public_key) ==
    BidRequest(signed_block.slot, signed_block.parent_hash, DefaultPubkey)

\* bid_key_from: the key open_bid reconstructs from the signed block and the
\* latest proposer key
bid_key_from(signed_block, public_key) ==
    BidRequest(signed_block.slot, signed_block.parent_hash, public_key)

\* an insertion that keeps the value of a key already present
MapInsertIfAbsent(m, k, v) ==
    [x \in DOMAIN m \cup {k} |-> IF x \in DOMAIN m THEN m[x] ELSE v]

\* HashMap::insert: overwrite unconditionally
MapInsert(m, k, v) == [x \in DOMAIN m \cup {k} |-> IF x = k THEN v ELSE m[x]]
\* a removal that takes the entries of every proposer for the key's slot
\* and parent hash
MapRemoveAnyProposer(m, k) ==
    [x \in {y \in DOMAIN m : ~(y.slot = k.slot /\ y.parent_hash = k.parent_hash)} |-> m[x]]

\* a lookup that leaves the entry in the map
MapPeek(m, k) == m

\* HashMap::remove
MapRemove(m, k) == [x \in DOMAIN m \ {k} |-> m[x]]
EmptyMap == [x \in {} |-> <<>>]
\* what HashMap::insert returns: the value the key had (<<>>: none)
PriorEntry(m, k) == IF k \in DOMAIN m THEN m[k] ELSE <<>>

\* the loop of open_bid without the block hash comparison
RECURSIVE FirstPayload(_, _)
FirstPayload(responses, expected_block_hash) ==
    IF responses = <<>>
    THEN [kind |-> "MissingPayload", block_hash |-> expected_block_hash]
    ELSE LET r == Head(responses).response
         IN  IF r.kind = "payload"
             THEN [kind |-> "Ok", block_hash |-> r.block_hash]
             ELSE FirstPayload(Tail(responses), expected_block_hash)

\* the loop of open_bid giving up at the first response that is not the
\* expected payload
OnlyFirstResponse(responses, expected_block_hash) ==
    IF responses # <<>>
       /\ Head(responses).response.kind = "payload"
       /\ Head(responses).response.block_hash = expected_block_hash
    THEN [kind |-> "Ok", block_hash |-> expected_block_hash]
    ELSE [kind |-> "MissingPayload", block_hash |-> expected_block_hash]

\* the loop over the collected responses in open_bid: the first payload whose
\* block hash is the signed block's, else MissingPayload(expected)
RECURSIVE FirstMatching(_, _)
FirstMatching(responses, expected_block_hash) ==
    IF responses = <<>>
    THEN [kind |-> "MissingPayload", block_hash |-> expected_block_hash]
    ELSE LET r == Head(responses).response
         IN  IF r.kind = "payload" /\ r.block_hash = expected_block_hash
             THEN [kind |-> "Ok", block_hash |-> r.block_hash]
             ELSE FirstMatching(Tail(responses), expected_block_hash)


\* ------------------------------------------------------------------ state
VARIABLES
    relays,            \* RelayMuxInner.relays: the advertised key of each relay
    outstanding_bids,  \* State.outstanding_bids: BidRequest -> Vec<usize>
    latest_pubkey,     \* State.latest_pubkey
    lock,              \* RelayMuxInner.state (the Mutex): "free" or the call holding it
    current_slot,      \* history: the slot of the latest on_slot call (0: none yet)
    fb_pc,             \* fetch_best_bid: "idle", "waiting" (relay tasks running), "done"
    fb_req,            \* its bid_request
    fb_responses,      \* its responses vector, in completion order
    fb_bids,           \* its bids vector
    fb_result,         \* what it returned
    fb_metrics,        \* the counter increments it made, each with its relay label
    ob_pc,             \* open_bid: "idle", "waiting", "done"
    ob_block,          \* its signed_block
    ob_relay_indices,  \* the relay_indices it took from outstanding_bids
    ob_contacted,      \* the relays it sent the signed block to
    ob_responses,      \* its responses vector, in completion order
    ob_result,         \* what it returned
    ob_follows,        \* history: this open_bid directly follows a successful fetch_best_bid
    last_fetch,        \* history: the latest successful fetch_best_bid: its request and
                       \* result, the clock when it stored its entry (at_slot), the
                       \* latest tick processed during the call (ticked, 0: none),
                       \* whether a tick since then passed over a slot (skipped),
                       \* the list its insertion replaced (replaced, <<>>: none)
    last_open,         \* history: the latest open_bid that found an entry: its block,
                       \* the key it removed, whether a fetch_best_bid has since
                       \* stored an entry under that key (refetched) or any (fetched)
    budget,            \* fetch_best_bid calls the validator still makes
    fb_ticked,         \* history: the latest tick on_slot processed while this
                       \* fetch_best_bid was waiting for its relays (0: none)
    rv_pc,             \* register_validators: "idle", "waiting", "done"
    rv_responses,      \* its responses vector, in completion order
    rv_result,         \* what it returned
    sel_pc,            \* select_best_bids: "input" (not called yet), "output"
    sel_bids,          \* the (value, index) pairs it is called with
    sel_out,           \* the vector it returned
    vb_pc,             \* validate_bid on its own: "input", "output"
    vb_bid,            \* the bid it is given
    vb_public_key,     \* the relay key it is given
    vb_out,            \* what it returned
    relay_task,        \* ServiceHandle.relay_mux, the slot loop: "running", "finished"
    server_task,       \* ServiceHandle.server, the HTTP server: "running", "finished"
    handle,            \* the ServiceHandle future: "pending", "resolved"
    handle_result      \* the task whose result it resolved with ("none": not yet)

mux == <<relays, outstanding_bids, latest_pubkey, lock>>
fb == <<fb_pc, fb_req, fb_responses, fb_bids, fb_result, fb_metrics>>
ob == <<ob_pc, ob_block, ob_relay_indices, ob_contacted, ob_responses, ob_result, ob_follows>>
rv == <<rv_pc, rv_responses, rv_result>>
sel == <<sel_pc, sel_bids, sel_out, vb_pc, vb_bid, vb_public_key, vb_out>>
svc == <<relay_task, server_task, handle, handle_result>>
vars == <<mux, current_slot, fb, ob, last_fetch, last_open, budget, fb_ticked, rv, sel, svc>>

RelayIndices == 0..(Len(relays) - 1)

NoRequest == BidRequest(0, 0, DefaultPubkey)
NoBlock == SignedBlindedBeaconBlock(0, 0, 0)
NoFetchResult == [kind |-> "none", bid |-> NoBid, relay |-> 0, relay_indices |-> <<>>]
NoMetrics == [requests |-> <<>>, invalid_bids |-> <<>>, timeouts |-> <<>>]
NoOpenResult == [kind |-> "none", block_hash |-> 0]
NoOpen == [found |-> FALSE, block |-> NoBlock, key |-> NoRequest, refetched |-> FALSE,
           fetched |-> FALSE]
NoFetch == [ok |-> FALSE, req |-> NoRequest, bid |-> NoBid, relay |-> 0, undisturbed |-> FALSE,
            at_slot |-> 0, ticked |-> 0, skipped |-> FALSE, replaced |-> <<>>]

\* RelayMux::new(relays, context) with n relays; State::default()
InitWith(n, calls) ==
    /\ relays = [i \in 1..n |-> RelayKey(i - 1)]
    /\ outstanding_bids = EmptyMap
    /\ latest_pubkey = DefaultPubkey
    /\ lock = "free"
    /\ current_slot = 0
    /\ fb_pc = "idle"
    /\ fb_req = NoRequest
    /\ fb_responses = <<>>
    /\ fb_bids = <<>>
    /\ fb_result = NoFetchResult
    /\ fb_metrics = NoMetrics
    /\ ob_pc = "idle"
    /\ ob_block = NoBlock
    /\ ob_relay_indices = <<>>
    /\ ob_contacted = {}
    /\ ob_responses = <<>>
    /\ ob_result = NoOpenResult
    /\ ob_follows = FALSE
    /\ last_fetch = NoFetch
    /\ last_open = NoOpen
    /\ relay_task = "running"
    /\ server_task = "running"
    /\ handle = "pending"
    /\ handle_result = "none"
    /\ budget = calls
    /\ fb_ticked = 0
    /\ rv_pc = "idle"
    /\ rv_responses = <<>>
    /\ rv_result = "none"

\* the inputs select_best_bids is applied to
NoValidation == [kind |-> "none", bid |-> 0, relay |-> 0]

\* the arguments of the calls of the pure functions on their own
InitPure(inputs, bids, public_keys) ==
    /\ sel_pc = "input"
    /\ sel_bids \in inputs
    /\ sel_out = <<>>
    /\ vb_pc = "input"
    /\ vb_bid \in bids
    /\ vb_public_key \in public_keys
    /\ vb_out = NoValidation

InitSel(inputs) == InitPure(inputs, {NoBid}, {DefaultPubkey})

\* ---------------------------------------------------------------- on_slot
\* RelayMux::on_slot(slot): retain the entries with
\* bid_request.slot + PROPOSAL_TOLERANCE_DELAY >= slot
PROPOSAL_TOLERANCE_DELAY == 1

\* the closure of retain with a tolerance of two slots
RetainedLonger(bid_request, slot) == bid_request.slot + 2 >= slot

\* the closure of retain without the tolerance
RetainedNoTolerance(bid_request, slot) == bid_request.slot >= slot

\* the closure of retain filtering by count: it evicts only at the tick that
\* is exactly one slot past the tolerance
RetainedUnlessExactAge(bid_request, slot) ==
    bid_request.slot + PROPOSAL_TOLERANCE_DELAY + 1 # slot

\* bid_request.slot + PROPOSAL_TOLERANCE_DELAY does not fit the width of Slot
SlotAddOverflows(bid_request) == bid_request.slot + PROPOSAL_TOLERANCE_DELAY > SlotMaxValue

\* the closure of retain; the sum wraps around when it overflows (a build
\* without overflow checks; with them the closure panics, see OnSlot)
Retained(bid_request, slot) ==
    (bid_request.slot + PROPOSAL_TOLERANCE_DELAY) % SlotModulus >= slot

\* on_slot leaving the map as it is
RetainAll(m, slot) == m

\* retain cutting every list it keeps down to its first relay
RetainFromFirstRelayOnly(m, slot) ==
    [x \in {y \in DOMAIN m : Retained(y, slot)} |-> <<Head(m[x])>>]

\* HashMap::retain with that closure
RetainFrom(m, slot) == [x \in {y \in DOMAIN m : Retained(y, slot)} |-> m[x]]

\* on_slot also resetting the latest proposer key
OnSlotResetsProposer(slot) ==
    /\ lock = "free"
    /\ current_slot' = slot
    /\ outstanding_bids' = RetainFrom(outstanding_bids, slot)
    /\ latest_pubkey' = DefaultPubkey
    /\ last_fetch' = [last_fetch EXCEPT
                         !.undisturbed = FALSE,
                         !.ticked = IF fb_pc = "done" /\ fb_result.kind = "Ok" THEN slot ELSE @,
                         !.skipped = IF last_fetch.ok THEN @ \/ slot > current_slot + 1 ELSE @]
    /\ fb_ticked' = IF fb_pc = "waiting" THEN slot ELSE fb_ticked
    /\ UNCHANGED <<relays, lock, fb, ob, last_open, budget, rv, sel, svc>>

\* the maps retain can leave behind when its closure panics on an entry:
\* the entries visited before it (in the map's arbitrary order) that failed
\* the test are gone, every other entry is still there
RetainInterrupted(m, slot) ==
    {[x \in DOMAIN m \ removed |-> m[x]] :
        removed \in SUBSET {y \in DOMAIN m : ~SlotAddOverflows(y) /\ ~Retained(y, slot)}}

\* on_slot(slot). When the sum overflows for an entry, the outcome depends on
\* the build: the sum wraps around and retain completes, or the closure
\* panics, retain is interrupted and the slot loop task dies with it
OnSlot(slot) ==
    /\ lock = "free"
    /\ current_slot' = slot
    /\ \/ /\ outstanding_bids' = RetainFrom(outstanding_bids, slot)
          /\ UNCHANGED svc
       \/ /\ \E bid_request \in DOMAIN outstanding_bids : SlotAddOverflows(bid_request)
          /\ outstanding_bids' \in RetainInterrupted(outstanding_bids, slot)
          /\ relay_task' = "finished"
          /\ UNCHANGED <<server_task, handle, handle_result>>
    /\ last_fetch' = [last_fetch EXCEPT
                         !.undisturbed = FALSE,
                         !.ticked = IF fb_pc = "done" /\ fb_result.kind = "Ok" THEN slot ELSE @,
                         !.skipped = IF last_fetch.ok THEN @ \/ slot > current_slot + 1 ELSE @]
    /\ fb_ticked' = IF fb_pc = "waiting" THEN slot ELSE fb_ticked
    /\ UNCHANGED <<relays, latest_pubkey, lock, fb, ob, last_open, budget, rv, sel>>

\* buffer_unordered(self.relays.len()) followed by collect(): the call goes
\* on once every relay's task has yielded its response. With no relay the
\* limit is 0: the buffer never polls its stream and never ends, so collect()
\* stays pending
Collected(responses) == Len(relays) > 0 /\ Len(responses) = Len(relays)

\* --------------------------------------------------------- fetch_best_bid
\* the call starts: one task per relay is spawned
FetchStart(bid_request) ==
    /\ fb_pc = "idle"
    /\ budget > 0
    /\ budget' = budget - 1
    /\ fb_pc' = "waiting"
    /\ fb_req' = bid_request
    /\ fb_responses' = <<>>
    /\ fb_bids' = <<>>
    /\ fb_result' = NoFetchResult
    /\ fb_metrics' = NoMetrics
    /\ last_fetch' = [last_fetch EXCEPT !.undisturbed = FALSE]
    /\ fb_ticked' = 0
    /\ UNCHANGED <<mux, current_slot, ob, last_open, rv, sel, svc>>

\* the task of relay index completes (a bid, a relay error, or the 1 s
\* timeout) and buffer_unordered yields (index, response)
FetchRelayDone(index, response) ==
    /\ fb_pc = "waiting"
    /\ index \in RelayIndices
    /\ \A k \in 1..Len(fb_responses) : fb_responses[k].relay_index # index
    /\ fb_responses' = Append(fb_responses, [relay_index |-> index, response |-> response])
    /\ UNCHANGED <<mux, current_slot, fb_pc, fb_req, fb_bids, fb_result, fb_metrics, ob, last_fetch, last_open,
                   budget, fb_ticked, rv, sel, svc>>

\* every task has completed: validate, select, shuffle, store (both writes
\* in one critical section), return
FetchFinish ==
    /\ fb_pc = "waiting"
    /\ Collected(fb_responses)
    /\ fb_pc' = "done"
    /\ LET bids == CollectBids(relays, fb_responses)
           best_indices == select_best_bids(BidValues(bids))
       IN  /\ fb_bids' = bids
           /\ fb_metrics' = CountResponses(relays, fb_responses)
           /\ IF best_indices = <<>>
              THEN /\ fb_result' = [NoFetchResult EXCEPT !.kind = "NoBids"]
                   /\ UNCHANGED <<mux, last_fetch, last_open>>
              ELSE \E shuffled \in Shuffles(best_indices) :
                     IF ~ReadsInBounds(bids, shuffled)
                     THEN \* bids[*index] panics before the lock is taken
                          /\ fb_result' = [NoFetchResult EXCEPT !.kind = "panic"]
                          /\ UNCHANGED <<mux, last_fetch, last_open>>
                     ELSE LET best_index == Head(shuffled)
                              relay_indices == TieBreak(bids, shuffled)
                              best == BidAt(bids, best_index)
                          IN  /\ lock = "free"
                              /\ latest_pubkey' = fb_req.public_key
                              /\ outstanding_bids' =
                                    MapInsert(outstanding_bids, fb_req, relay_indices)
                              /\ fb_result' = [kind |-> "Ok", bid |-> best.bid,
                                               relay |-> best.relay_index,
                                               relay_indices |-> relay_indices]
                              /\ last_fetch' = [ok |-> TRUE, req |-> fb_req, bid |-> best.bid,
                                                relay |-> best.relay_index,
                                                undisturbed |-> TRUE,
                                                at_slot |-> current_slot,
                                                ticked |-> fb_ticked,
                                                skipped |-> FALSE,
                                                replaced |-> PriorEntry(outstanding_bids, fb_req)]
                              /\ last_open' = [last_open EXCEPT
                                    !.refetched = @ \/ (last_open.found /\ fb_req = last_open.key),
                                    !.fetched = @ \/ last_open.found]
                              /\ UNCHANGED <<relays, lock>>
    /\ UNCHANGED <<current_slot, fb_req, fb_responses, ob, budget, fb_ticked, rv, sel, svc>>

\* fetch_best_bid with its critical section step by step.
\* every task has completed: validate, select, shuffle, up to the lock
FetchSelect ==
    /\ fb_pc = "waiting"
    /\ Collected(fb_responses)
    /\ LET bids == CollectBids(relays, fb_responses)
           best_indices == select_best_bids(BidValues(bids))
       IN  /\ fb_bids' = bids
           /\ fb_metrics' = CountResponses(relays, fb_responses)
           /\ IF best_indices = <<>>
              THEN /\ fb_pc' = "done"
                   /\ fb_result' = [NoFetchResult EXCEPT !.kind = "NoBids"]
              ELSE \E shuffled \in Shuffles(best_indices) :
                     IF ~ReadsInBounds(bids, shuffled)
                     THEN /\ fb_pc' = "done"
                          /\ fb_result' = [NoFetchResult EXCEPT !.kind = "panic"]
                     ELSE LET best == BidAt(bids, Head(shuffled))
                          IN  /\ fb_pc' = "selected"
                              /\ fb_result' = [kind |-> "Ok", bid |-> best.bid,
                                               relay |-> best.relay_index,
                                               relay_indices |-> TieBreak(bids, shuffled)]
    /\ UNCHANGED <<mux, current_slot, fb_req, fb_responses, ob, last_fetch, last_open, budget, fb_ticked,
                   rv, sel, svc>>

\* the first write made without taking the lock
FetchSetKeyUnlocked ==
    /\ fb_pc = "selected"
    /\ fb_pc' = "keyed"
    /\ latest_pubkey' = fb_req.public_key
    /\ UNCHANGED <<relays, outstanding_bids, lock, current_slot, fb_req, fb_responses, fb_bids,
                   fb_result, fb_metrics, ob, last_fetch, last_open, budget, fb_ticked, rv, sel, svc>>

\* self.state.lock(), then the first write: state.latest_pubkey
FetchSetKey ==
    /\ fb_pc = "selected"
    /\ lock = "free"
    /\ lock' = "fetch_best_bid"
    /\ fb_pc' = "keyed"
    /\ latest_pubkey' = fb_req.public_key
    /\ UNCHANGED <<relays, outstanding_bids, current_slot, fb_req, fb_responses, fb_bids,
                   fb_result, fb_metrics, ob, last_fetch, last_open, budget, fb_ticked, rv, sel, svc>>

\* the second write: state.outstanding_bids.insert; the guard is dropped at
\* the end of the block
FetchInsert ==
    /\ fb_pc = "keyed"
    /\ fb_pc' = "done"
    /\ outstanding_bids' = MapInsert(outstanding_bids, fb_req, fb_result.relay_indices)
    /\ lock' = "free"
    /\ last_fetch' = [ok |-> TRUE, req |-> fb_req, bid |-> fb_result.bid,
                      relay |-> fb_result.relay,
                      undisturbed |-> TRUE,
                      at_slot |-> current_slot,
                      ticked |-> fb_ticked,
                      skipped |-> FALSE,
                      replaced |-> PriorEntry(outstanding_bids, fb_req)]
    /\ last_open' = [last_open EXCEPT
                        !.refetched = @ \/ (last_open.found /\ fb_req = last_open.key),
                        !.fetched = @ \/ last_open.found]
    /\ UNCHANGED <<relays, latest_pubkey, current_slot, fb_req, fb_responses, fb_bids,
                   fb_result, fb_metrics, ob, budget, fb_ticked, rv, sel, svc>>

\* the caller has its result; the call's locals are dropped
FetchReturn ==
    /\ fb_pc = "done"
    /\ fb_pc' = "idle"
    /\ fb_req' = NoRequest
    /\ fb_responses' = <<>>
    /\ fb_bids' = <<>>
    /\ fb_result' = NoFetchResult
    /\ fb_metrics' = NoMetrics
    /\ fb_ticked' = 0
    /\ UNCHANGED <<mux, current_slot, ob, last_fetch, last_open, budget, rv, sel, svc>>

\* --------------------------------------------------------------- open_bid
\* open_bid sending the signed block to every configured relay
ContactedAll(relay_indices) == RelayIndices

\* the relays open_bid sends the signed block to: self.relays[i] for each i
\* of the list it took
Contacted(relay_indices) == Range(relay_indices)

\* the call starts: under the lock, rebuild the key and remove its entry;
\* then send the signed block to each relay of the list
OpenStart(signed_block) ==
    /\ ob_pc = "idle"
    /\ lock = "free"
    /\ ob_block' = signed_block
    /\ ob_responses' = <<>>
    /\ ob_follows' = last_fetch.undisturbed
    /\ last_fetch' = [last_fetch EXCEPT !.undisturbed = FALSE]
    /\ LET key == bid_key_from(signed_block, latest_pubkey)
       IN  IF key \notin DOMAIN outstanding_bids
           THEN /\ ob_pc' = "done"
                /\ ob_result' = [kind |-> "MissingOpenBid", block_hash |-> 0]
                /\ ob_relay_indices' = <<>>
                /\ ob_contacted' = {}
                /\ UNCHANGED <<outstanding_bids, last_open>>
           ELSE /\ ob_pc' = "waiting"
                /\ ob_result' = NoOpenResult
                /\ ob_relay_indices' = outstanding_bids[key]
                /\ ob_contacted' = Contacted(outstanding_bids[key])
                /\ outstanding_bids' = MapRemove(outstanding_bids, key)
                /\ last_open' = [found |-> TRUE, block |-> signed_block, key |-> key,
                                 refetched |-> FALSE, fetched |-> FALSE]
    /\ UNCHANGED <<relays, latest_pubkey, lock, current_slot, fb, budget, fb_ticked, rv, sel, svc>>

\* a contacted relay answers open_bid
OpenRelayDone(index, response) ==
    /\ ob_pc = "waiting"
    /\ index \in ob_contacted
    /\ \A k \in 1..Len(ob_responses) : ob_responses[k].relay_index # index
    /\ ob_responses' = Append(ob_responses, [relay_index |-> index, response |-> response])
    /\ UNCHANGED <<mux, current_slot, fb, ob_pc, ob_block, ob_relay_indices, ob_contacted,
                   ob_result, ob_follows, last_fetch, last_open, budget, fb_ticked, rv, sel, svc>>

\* open_bid returning as soon as one response carries the expected payload
OpenFinishEarly ==
    /\ ob_pc = "waiting"
    /\ \/ \A index \in ob_contacted :
             \E k \in 1..Len(ob_responses) : ob_responses[k].relay_index = index
       \/ \E k \in 1..Len(ob_responses) :
             /\ ob_responses[k].response.kind = "payload"
             /\ ob_responses[k].response.block_hash = ob_block.block_hash
    /\ ob_pc' = "done"
    /\ ob_result' = FirstMatching(ob_responses, ob_block.block_hash)
    /\ UNCHANGED <<mux, current_slot, fb, ob_block, ob_relay_indices, ob_contacted,
                   ob_responses, ob_follows, last_fetch, last_open, budget, fb_ticked, rv, sel, svc>>

\* collect() has every response: return the first payload with the signed
\* block's hash, else MissingPayload
OpenFinish ==
    /\ ob_pc = "waiting"
    /\ \A index \in ob_contacted : \E k \in 1..Len(ob_responses) : ob_responses[k].relay_index = index
    /\ ob_pc' = "done"
    /\ ob_result' = FirstMatching(ob_responses, ob_block.block_hash)
    /\ UNCHANGED <<mux, current_slot, fb, ob_block, ob_relay_indices, ob_contacted,
                   ob_responses, ob_follows, last_fetch, last_open, budget, fb_ticked, rv, sel, svc>>

OpenReturn ==
    /\ ob_pc = "done"
    /\ ob_pc' = "idle"
    /\ ob_block' = NoBlock
    /\ ob_relay_indices' = <<>>
    /\ ob_contacted' = {}
    /\ ob_responses' = <<>>
    /\ ob_result' = NoOpenResult
    /\ ob_follows' = FALSE
    /\ UNCHANGED <<mux, current_slot, fb, last_fetch, last_open, budget, fb_ticked, rv, sel, svc>>


\* ---------------------------------------------------- register_validators
\* num_failures after the loop over the collected responses
NumFailures(responses) ==
    Cardinality({k \in 1..Len(responses) : ~responses[k].ok})

\* the result of register_validators: CouldNotRegister iff num_failures is
\* the number of relays
RegisterResult(responses, num_relays) ==
    IF NumFailures(responses) = num_relays THEN "CouldNotRegister" ELSE "Ok"

\* the call starts: the registrations are sent to every relay
RegisterStart ==
    /\ rv_pc = "idle"
    /\ rv_pc' = "waiting"
    /\ rv_responses' = <<>>
    /\ rv_result' = "none"
    /\ UNCHANGED <<mux, current_slot, fb, ob, last_fetch, last_open, budget, fb_ticked, sel, svc>>

\* relay index answers the registration with Ok (ok) or an error
RegisterRelayDone(index, ok) ==
    /\ rv_pc = "waiting"
    /\ index \in RelayIndices
    /\ \A k \in 1..Len(rv_responses) : rv_responses[k].relay_index # index
    /\ rv_responses' = Append(rv_responses, [relay_index |-> index, ok |-> ok])
    /\ UNCHANGED <<mux, current_slot, fb, ob, last_fetch, last_open, budget, fb_ticked, rv_pc, rv_result, sel, svc>>

\* register_validators giving up on the relays still pending at a deadline
RegisterFinishAtDeadline ==
    /\ rv_pc = "waiting"
    /\ rv_pc' = "done"
    /\ rv_result' = RegisterResult(rv_responses, Len(relays))
    /\ UNCHANGED <<mux, current_slot, fb, ob, last_fetch, last_open, budget, fb_ticked,
                   rv_responses, sel, svc>>

\* collect() has every response: count the failures and return
RegisterFinish ==
    /\ rv_pc = "waiting"
    /\ Collected(rv_responses)
    /\ rv_pc' = "done"
    /\ rv_result' = RegisterResult(rv_responses, Len(relays))
    /\ UNCHANGED <<mux, current_slot, fb, ob, last_fetch, last_open, budget, fb_ticked, rv_responses, sel, svc>>

RegisterReturn ==
    /\ rv_pc = "done"
    /\ rv_pc' = "idle"
    /\ rv_responses' = <<>>
    /\ rv_result' = "none"
    /\ UNCHANGED <<mux, current_slot, fb, ob, last_fetch, last_open, budget, fb_ticked, sel, svc>>

\* ------------------------------------------------------------ the service
\* the slot loop task ends (the stream of slots ends, or the task panics)
RelayTaskEnds ==
    /\ relay_task = "running"
    /\ relay_task' = "finished"
    /\ UNCHANGED <<mux, current_slot, fb, ob, last_fetch, last_open, budget, fb_ticked, rv, sel,
                   server_task, handle, handle_result>>

\* the HTTP server task ends
ServerTaskEnds ==
    /\ server_task = "running"
    /\ server_task' = "finished"
    /\ UNCHANGED <<mux, current_slot, fb, ob, last_fetch, last_open, budget, fb_ticked, rv, sel,
                   relay_task, handle, handle_result>>

\* a poll that is Ready only when both tasks have finished
PollWaitsForBoth ==
    /\ handle = "pending"
    /\ relay_task = "finished"
    /\ server_task = "finished"
    /\ handle' = "resolved"
    /\ handle_result' = "relay_mux"
    /\ UNCHANGED <<mux, current_slot, fb, ob, last_fetch, last_open, budget, fb_ticked, rv, sel,
                   relay_task, server_task>>

\* ServiceHandle::poll returning Ready: with the result of relay_mux if that
\* task is ready, else with the result of server if that one is (a poll that
\* finds both pending changes nothing)
Poll ==
    /\ handle = "pending"
    /\ relay_task = "finished" \/ server_task = "finished"
    /\ handle' = "resolved"
    /\ handle_result' = IF relay_task = "finished" THEN "relay_mux" ELSE "server"
    /\ UNCHANGED <<mux, current_slot, fb, ob, last_fetch, last_open, budget, fb_ticked, rv, sel,
                   relay_task, server_task>>

\* ------------------------------------------------------- select_best_bids
\* select_best_bids is called with sel_bids
SelectBest ==
    /\ sel_pc = "input"
    /\ sel_pc' = "output"
    /\ sel_out' = select_best_bids(sel_bids)
    /\ UNCHANGED <<mux, current_slot, fb, ob, last_fetch, last_open, budget, fb_ticked, rv, sel_bids,
                   vb_pc, vb_bid, vb_public_key, vb_out, svc>>

\* validate_bid(bid, public_key, context) called on its own
ValidateBid ==
    /\ vb_pc = "input"
    /\ vb_pc' = "output"
    /\ vb_out' = validate_bid(vb_bid, vb_public_key)
    /\ UNCHANGED <<mux, current_slot, fb, ob, last_fetch, last_open, budget, fb_ticked, rv,
                   sel_pc, sel_bids, sel_out, vb_bid, vb_public_key, svc>>


\* ------------------------------------------------------------------ inputs
\* a bid that passes validate_bid for relay index
ValidBid(index, value, block_hash) ==
    RespBid(SignedBuilderBid(value, block_hash, RelayKey(index), TRUE))
\* bids that fail it: a foreign public key; a signature that does not verify
MismatchedBid(index) == RespBid(SignedBuilderBid(MaxValue, 1, ForeignKey, TRUE))
UnsignedBid(index) == RespBid(SignedBuilderBid(MaxValue, 1, RelayKey(index), FALSE))

\* the outcomes of a relay task in SpecAuction
AuctionResponses(index) ==
    {ValidBid(index, v, h) : v \in Values, h \in Hashes}
        \cup {MismatchedBid(index), UnsignedBid(index), RespErr, RespTimeout}
\* the outcomes of a relay task in Spec
SmallResponses(index) == {ValidBid(index, 1, 1), RespTimeout}
\* the answers of a relay to open_bid in Spec
SmallOpenResponses == {Payload(1)}
\* the blocks handed to open_bid in Spec: any slot and parent hash
SmallBlocks == {SignedBlindedBeaconBlock(s, p, 1) : s \in Slots, p \in Hashes}

\* the request and the blocks of SpecAuction
AuctionRequest == BidRequest(0, 1, 1)
AuctionBlocks == {SignedBlindedBeaconBlock(0, 1, h) : h \in Hashes}

\* ---------------------------------------------------------- specifications
\* Spec: NumRelays relays, one auction for any request and open_bid for any
\* blinded block, at any point
Init == InitWith(NumRelays, 1) /\ InitSel({<<>>})

Next ==
    \/ \E bid_request \in BidRequests : FetchStart(bid_request)
    \/ \E index \in RelayIndices : \E response \in SmallResponses(index) :
          FetchRelayDone(index, response)
    \/ FetchFinish
    \/ FetchReturn
    \/ \E signed_block \in SmallBlocks : OpenStart(signed_block)
    \/ \E index \in RelayIndices : \E response \in SmallOpenResponses :
          OpenRelayDone(index, response)
    \/ OpenFinish
    \/ OpenReturn

Spec == Init /\ [][Next]_vars

\* SpecAuction: the three relays of the scenarios and one auction with every
\* relay outcome and completion order
InitAuction == InitWith(3, 1) /\ InitSel({<<>>})

NextAuction ==
    \/ FetchStart(AuctionRequest)
    \/ \E index \in RelayIndices : \E response \in AuctionResponses(index) :
          FetchRelayDone(index, response)
    \/ FetchFinish
    \/ FetchReturn

SpecAuction == InitAuction /\ [][NextAuction]_vars

\* SpecPayload: the three relays, one auction in which a relay returns a
\* validated bid or times out, and open_bid for a block of that auction with
\* every relay answer, at any point
PayloadResponses(index) == {ValidBid(index, 1, h) : h \in Hashes} \cup {RespTimeout}

InitPayload == InitWith(3, 1) /\ InitSel({<<>>})

NextPayload ==
    \/ FetchStart(AuctionRequest)
    \/ \E index \in RelayIndices : \E response \in PayloadResponses(index) :
          FetchRelayDone(index, response)
    \/ FetchFinish
    \/ FetchReturn
    \/ \E signed_block \in AuctionBlocks : OpenStart(signed_block)
    \/ \E index \in RelayIndices : \E response \in OpenResponses :
          OpenRelayDone(index, response)
    \/ OpenFinish
    \/ OpenReturn

SpecPayload == InitPayload /\ [][NextPayload]_vars

\* SpecRounds: one relay, two auctions for any slot and its proposer,
\* open_bid and slot ticks, all of them at any point
\* the proposer of a slot: the validators take turns
ProposerOf(slot) == (slot % NumProposers) + 1
RoundRequests == {BidRequest(s, 1, ProposerOf(s)) : s \in Slots}
RoundBlocks == {SignedBlindedBeaconBlock(s, 1, 1) : s \in Slots}
RoundResponses(index) == {ValidBid(index, 1, 1), UnsignedBid(index)}

InitRounds == InitWith(1, 2) /\ InitSel({<<>>})

NextRounds ==
    \/ \E slot \in Slots : OnSlot(slot)
    \/ \E bid_request \in RoundRequests : FetchStart(bid_request)
    \/ \E index \in RelayIndices : \E response \in RoundResponses(index) :
          FetchRelayDone(index, response)
    \/ FetchFinish
    \/ FetchReturn
    \/ \E signed_block \in RoundBlocks : OpenStart(signed_block)
    \/ \E index \in RelayIndices : OpenRelayDone(index, Payload(1))
    \/ OpenFinish
    \/ OpenReturn

SpecRounds == InitRounds /\ [][NextRounds]_vars

\* SpecOverwrite: two relays, two auctions for the first two slots and their
\* proposers, and open_bid for the blocks of those slots, at any point
OverwriteRequests == {BidRequest(s, 1, ProposerOf(s)) : s \in 0..1}
OverwriteBlocks == {SignedBlindedBeaconBlock(s, 1, 1) : s \in 0..1}

InitOverwrite == InitWith(2, 2) /\ InitSel({<<>>})

NextOverwrite ==
    \/ \E bid_request \in OverwriteRequests : FetchStart(bid_request)
    \/ \E index \in RelayIndices : \E response \in RoundResponses(index) :
          FetchRelayDone(index, response)
    \/ FetchFinish
    \/ FetchReturn
    \/ \E signed_block \in OverwriteBlocks : OpenStart(signed_block)
    \/ \E index \in RelayIndices : OpenRelayDone(index, Payload(1))
    \/ OpenFinish
    \/ OpenReturn

SpecOverwrite == InitOverwrite /\ [][NextOverwrite]_vars

\* SpecProposer: one relay, two auctions for the first two slots and their
\* proposers, open_bid, register_validators and slot ticks, all of them at any
\* point
InitProposer == InitWith(1, 2) /\ InitSel({<<>>})

NextProposer ==
    \/ \E slot \in Slots : OnSlot(slot)
    \/ \E bid_request \in OverwriteRequests : FetchStart(bid_request)
    \/ \E index \in RelayIndices : \E response \in RoundResponses(index) :
          FetchRelayDone(index, response)
    \/ FetchFinish
    \/ FetchReturn
    \/ \E signed_block \in OverwriteBlocks : OpenStart(signed_block)
    \/ \E index \in RelayIndices : OpenRelayDone(index, Payload(1))
    \/ OpenFinish
    \/ OpenReturn
    \/ RegisterStart
    \/ \E index \in RelayIndices : RegisterRelayDone(index, FALSE)
    \/ RegisterFinish
    \/ RegisterReturn

SpecProposer == InitProposer /\ [][NextProposer]_vars

\* SpecLocked: two relays, one auction with the critical section of
\* fetch_best_bid step by step, open_bid and slot ticks running concurrently
\* with them
InitLocked == InitWith(2, 1) /\ InitSel({<<>>})

NextLocked ==
    \/ \E slot \in Slots : OnSlot(slot)
    \/ \E bid_request \in RoundRequests : FetchStart(bid_request)
    \/ \E index \in RelayIndices : \E response \in SmallResponses(index) :
          FetchRelayDone(index, response)
    \/ FetchSelect
    \/ FetchSetKey
    \/ FetchInsert
    \/ FetchReturn
    \/ \E signed_block \in RoundBlocks : OpenStart(signed_block)
    \/ \E index \in RelayIndices : OpenRelayDone(index, Payload(1))
    \/ OpenFinish
    \/ OpenReturn

SpecLocked == InitLocked /\ [][NextLocked]_vars

\* SpecRegister: register_validators with any number of relays and any
\* combination of per-relay outcomes
InitRegister == \E n \in 0..(NumRelays + 1) : InitWith(n, 0) /\ InitSel({<<>>})

NextRegister ==
    \/ RegisterStart
    \/ \E index \in RelayIndices : \E ok \in BOOLEAN : RegisterRelayDone(index, ok)
    \/ RegisterFinish
    \/ RegisterReturn

SpecRegister == InitRegister /\ [][NextRegister]_vars

\* SpecRegisterLive: the same, and a call whose collect() can complete does
\* go on to return (the runtime keeps polling a future that can progress)
SpecRegisterLive == SpecRegister /\ WF_vars(RegisterFinish)

\* SpecSelect: select_best_bids applied to every list of at most MaxBids
\* (value, index) pairs
SelectItems == {[value |-> v, index |-> i] : v \in Values, i \in 0..NumRelays}
SelectInputs == UNION {[1..n -> SelectItems] : n \in 0..MaxBids}

InitSelect == InitWith(0, 0) /\ InitSel(SelectInputs)

NextSelect == SelectBest

SpecSelect == InitSelect /\ [][NextSelect]_vars

\* SpecReopen: one relay, two auctions for the same slot and parent hash by
\* any proposer, open_bid for the block of that slot, slot ticks
ReopenRequests == {BidRequest(0, 1, k) : k \in ProposerKeys}
ReopenBlocks == {SignedBlindedBeaconBlock(0, 1, 1)}
ReopenResponses == {Payload(1), PayloadErr}

InitReopen == InitWith(1, 2) /\ InitSel({<<>>})

NextReopen ==
    \/ \E slot \in Slots : OnSlot(slot)
    \/ \E bid_request \in ReopenRequests : FetchStart(bid_request)
    \/ \E index \in RelayIndices : \E response \in SmallResponses(index) :
          FetchRelayDone(index, response)
    \/ FetchFinish
    \/ FetchReturn
    \/ \E signed_block \in ReopenBlocks : OpenStart(signed_block)
    \/ \E index \in RelayIndices : \E response \in ReopenResponses :
          OpenRelayDone(index, response)
    \/ OpenFinish
    \/ OpenReturn

SpecReopen == InitReopen /\ [][NextReopen]_vars

\* SpecService: the two tasks Service::spawn starts and the ServiceHandle:
\* the slot loop calls on_slot while it runs, the server accepts calls while
\* it runs
InitService == InitWith(1, 1) /\ InitSel({<<>>})

NextService ==
    \/ \E slot \in Slots : relay_task = "running" /\ OnSlot(slot)
    \/ \E bid_request \in RoundRequests :
          server_task = "running" /\ FetchStart(bid_request)
    \/ \E index \in RelayIndices : \E response \in SmallResponses(index) :
          FetchRelayDone(index, response)
    \/ FetchFinish
    \/ FetchReturn
    \/ \E signed_block \in RoundBlocks :
          server_task = "running" /\ OpenStart(signed_block)
    \/ \E index \in RelayIndices : OpenRelayDone(index, Payload(1))
    \/ OpenFinish
    \/ OpenReturn
    \/ RelayTaskEnds
    \/ ServerTaskEnds
    \/ Poll

SpecService == InitService /\ [][NextService]_vars

\* SpecOverflow: one relay, two auctions for an early slot or one of the last
\* two slots a u64 can hold, open_bid, ticks for early slots and the last
\* slot, while the slot loop runs
EdgeSlots == {0, SlotMaxValue - 1, SlotMaxValue}
OverflowRequests == {BidRequest(s, 1, 1) : s \in EdgeSlots}
OverflowBlocks == {SignedBlindedBeaconBlock(s, 1, 1) : s \in EdgeSlots}

InitOverflow == InitWith(1, 2) /\ InitSel({<<>>})

NextOverflow ==
    \/ \E slot \in Slots \cup {SlotMaxValue} : relay_task = "running" /\ OnSlot(slot)
    \/ \E bid_request \in OverflowRequests : FetchStart(bid_request)
    \/ \E index \in RelayIndices : \E response \in SmallResponses(index) :
          FetchRelayDone(index, response)
    \/ FetchFinish
    \/ FetchReturn
    \/ \E signed_block \in OverflowBlocks : OpenStart(signed_block)
    \/ \E index \in RelayIndices : OpenRelayDone(index, Payload(1))
    \/ OpenFinish
    \/ OpenReturn

SpecOverflow == InitOverflow /\ [][NextOverflow]_vars

\* SpecValidate: validate_bid on its own, on any bid and any relay key
ValidateKeys == {RelayKey(i) : i \in 0..(NumRelays - 1)} \cup {ForeignKey}
ValidateBids ==
    {SignedBuilderBid(v, h, k, ok) :
        v \in Values, h \in Hashes, k \in ValidateKeys, ok \in BOOLEAN}

InitValidate == InitWith(0, 0) /\ InitPure({<<>>}, ValidateBids, ValidateKeys)

NextValidate == ValidateBid

SpecValidate == InitValidate /\ [][NextValidate]_vars


\* ------------------------------------------------------------------ claims
\* positions of fb_responses whose bid passes validation: the relay's own
\* key and a signature that verifies
ValidatedPositions ==
    {k \in 1..Len(fb_responses) :
        /\ fb_responses[k].response.kind = "bid"
        /\ fb_responses[k].response.bid.public_key = At(relays, fb_responses[k].relay_index)
        /\ fb_responses[k].response.bid.sig_ok}
ValidatedBidOf(k) == fb_responses[k].response.bid
FetchOk == fb_pc = "done" /\ fb_result.kind = "Ok"
\* the entry fetch_best_bid stored for its request is still in the map (an
\* open_bid running alongside may have taken it since)
StillStored == fb_req \in DOMAIN outstanding_bids
\* the list under the request of this fetch_best_bid (empty once taken)
StoredList == IF StillStored THEN outstanding_bids[fb_req] ELSE <<>>

\* C1: a successful fetch_best_bid returns a bid whose value is the maximum
\* value among the bids that passed validation in that call, for every set of
\* relay outcomes and every completion order.
C1_ReturnsMaxValue ==
    FetchOk =>
        /\ \A k \in ValidatedPositions : ValidatedBidOf(k).value <= fb_result.bid.value
        /\ \E k \in ValidatedPositions : ValidatedBidOf(k).value = fb_result.bid.value

\* C2: fetch_best_bid returns Ok whenever a relay returned a bid that passed
\* validation, whatever the other relays did and whatever the completion
\* order; it returns NoBids exactly when no bid passed validation; it
\* surfaces no other outcome.
C2_OkIffSomeBidValidated ==
    fb_pc = "done" =>
        /\ fb_result.kind \in {"Ok", "NoBids"}
        /\ fb_result.kind = "Ok" <=> ValidatedPositions # {}
        /\ fb_result.kind = "NoBids" <=> ValidatedPositions = {}

\* C3: after a successful fetch_best_bid(req), the list stored at req starts
\* with the relay that produced the returned bid, and holds exactly that relay
\* and the other relays whose validated bid has the maximum value and the
\* block hash of the returned bid.
C3_StoredWinners ==
    (FetchOk /\ StillStored) =>
        LET stored == StoredList
            top == {k \in ValidatedPositions :
                      \A j \in ValidatedPositions : ValidatedBidOf(j).value <= ValidatedBidOf(k).value}
        IN  /\ Head(stored) = fb_result.relay
            /\ Range(stored) =
                  {fb_result.relay} \cup
                  {fb_responses[k].relay_index : k \in
                      {j \in top : ValidatedBidOf(j).block_hash = fb_result.bid.block_hash}}

\* C4: end to end: when open_bid directly follows a fetch_best_bid(req) that
\* returned bid b, for a block with req's slot and parent hash and b's block
\* hash, and the relay that produced b answers every open_bid it receives with
\* the payload of that hash, open_bid returns that payload.
C4_FetchThenOpen ==
    (/\ ob_pc = "done"
     /\ ob_follows
     /\ ob_block.slot = last_fetch.req.slot
     /\ ob_block.parent_hash = last_fetch.req.parent_hash
     /\ ob_block.block_hash = last_fetch.bid.block_hash
     /\ \A k \in 1..Len(ob_responses) :
           ob_responses[k].relay_index = last_fetch.relay
               => ob_responses[k].response = Payload(last_fetch.bid.block_hash))
        => ob_result = [kind |-> "Ok", block_hash |-> last_fetch.bid.block_hash]

\* C5: every payload open_bid returns as Ok has the block hash of the signed
\* blinded block of that call.
C5_PayloadHasSignedHash ==
    (ob_pc = "done" /\ ob_result.kind = "Ok") => ob_result.block_hash = ob_block.block_hash

\* an Ok open_bid that had to pass over a payload with another block hash
C5_Witness ==
    /\ ob_pc = "done"
    /\ ob_result.kind = "Ok"
    /\ ob_responses # <<>>
    /\ Head(ob_responses).response.kind = "payload"
    /\ Head(ob_responses).response.block_hash # ob_block.block_hash

AllAnswered ==
    \A index \in ob_contacted : \E k \in 1..Len(ob_responses) : ob_responses[k].relay_index = index
IsExpectedPayload(response) ==
    response.kind = "payload" /\ response.block_hash = ob_block.block_hash
HasExpectedPayload == \E k \in 1..Len(ob_responses) : IsExpectedPayload(ob_responses[k].response)

\* C6: when open_bid found an outstanding entry, it returns
\* MissingPayload(expected) iff every eligible relay's response is an error or
\* a payload with another block hash, and Ok if some response is the expected
\* payload.
C6_MissingPayloadIffNoneCorrect ==
    (ob_pc = "done" /\ ob_result.kind # "MissingOpenBid") =>
        /\ ob_result = [kind |-> "MissingPayload", block_hash |-> ob_block.block_hash]
              <=> (\A k \in 1..Len(ob_responses) : ~IsExpectedPayload(ob_responses[k].response))
        /\ HasExpectedPayload => ob_result.kind = "Ok"
        /\ Range(ob_relay_indices) = {ob_responses[k].relay_index : k \in 1..Len(ob_responses)}

\* two eligible relays, an error first and the expected payload second
C6_Witness ==
    /\ ob_pc = "done"
    /\ Len(ob_responses) = 2
    /\ ob_responses[1].response.kind = "err"
    /\ IsExpectedPayload(ob_responses[2].response)
    /\ ob_result.kind = "Ok"

\* C7 as claimed: once one eligible relay has answered with the expected
\* payload, open_bid can return it without any further relay answer.
C7_ReturnsFirstCorrect ==
    (ob_pc = "waiting" /\ HasExpectedPayload) => ENABLED OpenFinish

\* C7 as the code has it: open_bid returns only when every eligible relay has
\* answered, and then returns Ok if one of them answered with the expected
\* payload.
C7_ReturnsOnceAllAnswered ==
    /\ ob_pc = "waiting" => (ENABLED OpenFinish <=> AllAnswered)
    /\ (ob_pc = "done" /\ ob_result.kind # "MissingOpenBid") =>
          (AllAnswered /\ (HasExpectedPayload => ob_result.kind = "Ok"))

\* one eligible relay has answered with the expected payload, another has not
\* answered yet
C7_Witness ==
    /\ ob_pc = "waiting"
    /\ HasExpectedPayload
    /\ ~AllAnswered

\* C8: open_bid sends the signed block only to relays whose index is in the
\* list stored in outstanding_bids at the reconstructed key, and only those
\* relays' answers are collected.
C8_OnlyListedRelaysContacted ==
    [][/\ (ob_pc = "idle" /\ ob_pc' # "idle") =>
            LET key == BidRequest(ob_block'.slot, ob_block'.parent_hash, latest_pubkey)
            IN  ob_contacted' \subseteq
                    (IF key \in DOMAIN outstanding_bids
                     THEN Range(outstanding_bids[key]) ELSE {})
       /\ ob_pc = "waiting" => ob_contacted' = ob_contacted
       /\ \A k \in 1..Len(ob_responses') : ob_responses'[k].relay_index \in ob_contacted']_vars

\* open_bid is waiting for one relay while another configured relay was not
\* contacted
C8_Witness ==
    /\ ob_pc = "waiting"
    /\ ob_contacted # {}
    /\ RelayIndices \ ob_contacted # {}

\* C9: with no entry at (block.slot, block.parent_hash, latest_pubkey),
\* open_bid returns MissingOpenBid, contacts no relay, and leaves
\* outstanding_bids and latest_pubkey unchanged.
C9_MissingOpenBid ==
    [][(/\ ob_pc = "idle"
        /\ ob_pc' # "idle"
        /\ BidRequest(ob_block'.slot, ob_block'.parent_hash, latest_pubkey)
              \notin DOMAIN outstanding_bids)
          => /\ ob_pc' = "done"
             /\ ob_result'.kind = "MissingOpenBid"
             /\ ob_contacted' = {}
             /\ ob_responses' = <<>>
             /\ outstanding_bids' = outstanding_bids
             /\ latest_pubkey' = latest_pubkey]_vars

\* MissingOpenBid although an entry is outstanding for the same slot and
\* proposer under another parent hash
C9_Witness ==
    /\ ob_pc = "done"
    /\ ob_result.kind = "MissingOpenBid"
    /\ \E key \in DOMAIN outstanding_bids :
          /\ key.slot = ob_block.slot
          /\ key.public_key = latest_pubkey
          /\ key.parent_hash # ob_block.parent_hash

\* C10: bid-key round trip: directly after a successful fetch_best_bid(req),
\* the key rebuilt from any block with req's slot and parent hash and the
\* latest proposer key is req, it has an entry, and an open_bid for such a
\* block does not return MissingOpenBid.
C10_BidKeyRoundTrip ==
    /\ last_fetch.undisturbed =>
          \A signed_block \in BlindedBlocks :
              (/\ signed_block.slot = last_fetch.req.slot
               /\ signed_block.parent_hash = last_fetch.req.parent_hash)
                 => /\ bid_key_from(signed_block, latest_pubkey) = last_fetch.req
                    /\ bid_key_from(signed_block, latest_pubkey) \in DOMAIN outstanding_bids
    /\ (/\ ob_pc # "idle"
        /\ ob_follows
        /\ ob_block.slot = last_fetch.req.slot
        /\ ob_block.parent_hash = last_fetch.req.parent_hash)
          => ob_result.kind # "MissingOpenBid"

\* an open_bid that directly follows the auction of (slot 1, parent hash 2,
\* proposer 2) found its entry
C10_Witness ==
    /\ ob_pc = "waiting"
    /\ ob_follows
    /\ last_fetch.req = BidRequest(1, 2, 2)
    /\ ob_block.slot = 1
    /\ ob_block.parent_hash = 2

\* the key open_bid rebuilds for the block it is about to take
OpenedKey == BidRequest(ob_block.slot, ob_block.parent_hash, latest_pubkey)
\* this step is an on_slot tick
TickStep == \E slot \in 0..SlotMaxValue : OnSlot(slot)
\* this step is the start of an open_bid
OpenStep == ob_pc = "idle" /\ ob_pc' # "idle"
\* this step is the end of a fetch_best_bid
FetchEndStep == fb_pc = "waiting" /\ fb_pc' = "done"

\* C11: on_slot(c) removes exactly the entries whose key slot s has s + 1 < c
\* and keeps all others with their lists; once a tick for s + 2 or later has
\* followed the insertion of the slot-s key, open_bid for that key returns
\* MissingOpenBid.
C11_EvictsExactlyOlder ==
    [][/\ TickStep =>
            /\ DOMAIN outstanding_bids' =
                  DOMAIN outstanding_bids \
                      {key \in DOMAIN outstanding_bids : key.slot + 1 < current_slot'}
            /\ \A key \in DOMAIN outstanding_bids' :
                  outstanding_bids'[key] = outstanding_bids[key]
       /\ (/\ OpenStep
           /\ last_fetch.ok
           /\ OpenedKey' = last_fetch.req
           /\ last_fetch.at_slot < current_slot
           /\ last_fetch.req.slot + 2 <= current_slot)
             => ob_result'.kind = "MissingOpenBid"]_vars

\* the tick for slot 1 kept the entry of slot 0, the tick for slot 2 removed
\* it, and open_bid for its key has returned MissingOpenBid
C11_Witness ==
    /\ ob_pc = "done"
    /\ ob_result.kind = "MissingOpenBid"
    /\ last_fetch.ok
    /\ OpenedKey = last_fetch.req
    /\ last_fetch.req.slot = 0
    /\ last_fetch.at_slot = 0
    /\ current_slot = 2
    /\ budget = 1

\* C12 as claimed: whenever on_slot(12) was processed during a fetch_best_bid
\* for slot 10, in whatever order the lock serialized the tick and the
\* insertion, a following open_bid with the slot-10 key fails with
\* MissingOpenBid, and the tick keeps every entry stored for slot 11.
C12_EvictedInEveryInterleaving ==
    [][/\ (/\ OpenStep
           /\ last_fetch.ok
           /\ OpenedKey' = last_fetch.req
           /\ last_fetch.req.slot + 2 <= last_fetch.ticked)
             => ob_result'.kind = "MissingOpenBid"
       /\ TickStep =>
             \A key \in DOMAIN outstanding_bids :
                 key.slot + 1 = current_slot' => key \in DOMAIN outstanding_bids']_vars

\* C12 as the code has it: the lock serializes the tick and the insertion in
\* either order. Insertion first: the tick removes the slot-10 entry and
\* open_bid fails with MissingOpenBid. Tick first: the entry is stored after
\* the eviction and a directly following open_bid finds it. In both orders the
\* tick keeps every entry stored for slot 11.
C12_EvictedIfInsertedBeforeTick ==
    [][/\ (/\ OpenStep
           /\ last_fetch.ok
           /\ OpenedKey' = last_fetch.req
           /\ last_fetch.req.slot + 2 <= last_fetch.ticked
           /\ last_fetch.at_slot < last_fetch.ticked)
             => ob_result'.kind = "MissingOpenBid"
       /\ (/\ OpenStep
           /\ last_fetch.undisturbed
           /\ OpenedKey' = last_fetch.req
           /\ last_fetch.req.slot + 2 <= last_fetch.ticked)
             => (ob_result'.kind # "MissingOpenBid" /\ ob_contacted' # {})
       /\ TickStep =>
             \A key \in DOMAIN outstanding_bids :
                 key.slot + 1 = current_slot' =>
                     /\ key \in DOMAIN outstanding_bids'
                     /\ outstanding_bids'[key] = outstanding_bids[key]]_vars

\* the tick for slot 2 came after the insertion of the slot-0 entry and before
\* fetch_best_bid returned; open_bid for the slot-0 key has failed with
\* MissingOpenBid and an entry stored for slot 1 is still present
C12_Witness ==
    /\ ob_pc = "done"
    /\ ob_result.kind = "MissingOpenBid"
    /\ last_fetch.ok
    /\ OpenedKey = last_fetch.req
    /\ last_fetch.req.slot = 0
    /\ last_fetch.ticked = 2
    /\ last_fetch.at_slot < 2
    /\ current_slot = 2
    /\ \E key \in DOMAIN outstanding_bids : key.slot = 1

\* relays whose register_validators call has settled
RegisterSettled == {rv_responses[k].relay_index : k \in 1..Len(rv_responses)}

\* C13: register_validators returns Ok iff at least one relay's
\* register_validators call returned Ok, and CouldNotRegister iff all relays
\* failed, for every number of relays and every combination of outcomes:
\* what it returns agrees with the relays' answers, and once every relay's
\* call has settled (none is left when there is no relay) it does return.
C13_ReturnsForEveryNumberOfRelays ==
    /\ [](rv_pc = "done" =>
            LET succeeded == {k \in 1..Len(rv_responses) : rv_responses[k].ok}
            IN  /\ RegisterSettled = RelayIndices
                /\ rv_result \in {"Ok", "CouldNotRegister"}
                /\ rv_result = "Ok" <=> succeeded # {}
                /\ rv_result = "CouldNotRegister" <=> succeeded = {})
    /\ [](rv_pc = "waiting" /\ RegisterSettled = RelayIndices => <>(rv_pc = "done"))

\* positions of fb_responses whose bid states a key other than its relay's
MismatchedPositions ==
    {k \in 1..Len(fb_responses) :
        /\ fb_responses[k].response.kind = "bid"
        /\ fb_responses[k].response.bid.public_key # At(relays, fb_responses[k].relay_index)}

\* C14: every relay index stored by fetch_best_bid belongs to a relay whose
\* bid passed validation in that call (the relay's own key, a signature that
\* verifies); a bid stating another key is never retained, never returned and
\* never causes its relay to be recorded.
C14_OnlyValidatedRecorded ==
    fb_pc = "done" =>
        /\ \A k \in 1..Len(fb_bids) :
              /\ fb_bids[k].bid.public_key = At(relays, fb_bids[k].relay_index)
              /\ fb_bids[k].bid.sig_ok
        /\ \A k \in MismatchedPositions :
              \A j \in 1..Len(fb_bids) : fb_bids[j].relay_index # fb_responses[k].relay_index
        /\ fb_result.kind = "Ok" =>
              /\ \A index \in Range(StoredList) :
                    \E k \in ValidatedPositions : fb_responses[k].relay_index = index
              /\ \E k \in ValidatedPositions : ValidatedBidOf(k) = fb_result.bid
              /\ \A k \in MismatchedPositions :
                    /\ fb_responses[k].relay_index \notin Range(StoredList)
                    /\ fb_responses[k].response.bid # fb_result.bid
        /\ fb_result.kind # "Ok" => outstanding_bids = EmptyMap

\* a successful fetch_best_bid in which one relay returned a bid stating a
\* foreign key and another a bid whose signature does not verify
C14_Witness ==
    /\ FetchOk
    /\ MismatchedPositions # {}
    /\ \E k \in 1..Len(fb_responses) :
          /\ fb_responses[k].response.kind = "bid"
          /\ ~fb_responses[k].response.bid.sig_ok
    /\ fb_req \in DOMAIN outstanding_bids

\* C15: in every reachable state, every entry of outstanding_bids has a
\* non-empty relay-index list and each index in it is smaller than the number
\* of configured relays.
C15_ListsNonEmptyInRange ==
    \A key \in DOMAIN outstanding_bids :
        /\ outstanding_bids[key] # <<>>
        /\ \A k \in 1..Len(outstanding_bids[key]) :
              /\ outstanding_bids[key][k] >= 0
              /\ outstanding_bids[key][k] < Len(relays)

\* an entry that names one relay of the three, stored by a fetch_best_bid
\* that has returned
C15_Witness ==
    /\ fb_pc = "idle"
    /\ \E key \in DOMAIN outstanding_bids : Len(outstanding_bids[key]) = 1
    /\ Len(relays) = 3

\* an entry older than the tolerance: current_slot > slot + 1
Stale(key, slot) == slot > key.slot + PROPOSAL_TOLERANCE_DELAY

\* C16 as claimed: in every reachable state, every outstanding entry with key
\* slot s satisfies current_slot <= s + PROPOSAL_TOLERANCE_DELAY.
C16_NoStaleEntry ==
    \A key \in DOMAIN outstanding_bids : current_slot <= key.slot + PROPOSAL_TOLERANCE_DELAY

\* C16 as the code has it: right after every on_slot(c) no entry is older than
\* the tolerance; between ticks an older entry enters the map only as the
\* entry a successful fetch_best_bid stores for its own request, and stays
\* until the next tick or its open_bid.
C16_StaleOnlyUntilNextTick ==
    [][/\ TickStep => \A key \in DOMAIN outstanding_bids' : ~Stale(key, current_slot')
       /\ \A key \in DOMAIN outstanding_bids' :
             Stale(key, current_slot') =>
                 \/ key \in DOMAIN outstanding_bids /\ Stale(key, current_slot)
                 \/ FetchEndStep /\ fb_result'.kind = "Ok" /\ key = fb_req]_vars

\* after the tick for slot 2, a fetch_best_bid for slot 0 has stored its entry
\* and returned
C16_Witness ==
    /\ fb_pc = "idle"
    /\ current_slot = 2
    /\ last_fetch.ok
    /\ last_fetch.at_slot = 2
    /\ last_fetch.req.slot = 0
    /\ last_fetch.req \in DOMAIN outstanding_bids

\* C17: in every reachable state latest_pubkey is the proposer key of the most
\* recent fetch_best_bid that returned Ok (the default key if none has);
\* failed fetch_best_bid calls, open_bid, register_validators and on_slot
\* never change it.
C17_LatestProposerOfLastOk ==
    [][/\ (FetchEndStep /\ fb_result'.kind = "Ok") => latest_pubkey' = fb_req.public_key
       /\ ~(FetchEndStep /\ fb_result'.kind = "Ok") => latest_pubkey' = latest_pubkey
       /\ latest_pubkey' = IF last_fetch'.ok THEN last_fetch'.req.public_key
                           ELSE DefaultPubkey]_vars

\* the fetch_best_bid of proposer 2 has failed with NoBids after the one of
\* proposer 1 returned Ok and a tick was processed: the latest key is still 1
C17_Witness ==
    /\ fb_pc = "done"
    /\ fb_result.kind = "NoBids"
    /\ fb_req.public_key = 2
    /\ last_fetch.ok
    /\ last_fetch.req.public_key = 1
    /\ latest_pubkey = 1
    /\ current_slot > last_fetch.at_slot

\* C18: a fetch_best_bid in which no bid passes validation (for example every
\* returned bid fails signature verification) returns NoBids, and a
\* fetch_best_bid that returns NoBids creates or overwrites no outstanding
\* entry and keeps latest_pubkey.
C18_NoBidsLeavesState ==
    [][FetchEndStep =>
          /\ ValidatedPositions = {} => fb_result'.kind = "NoBids"
          /\ fb_result'.kind = "NoBids" =>
                /\ outstanding_bids' = outstanding_bids
                /\ latest_pubkey' = latest_pubkey]_vars

\* both relays returned bids whose signature does not verify, NoBids was
\* returned, and the entry and the key of an earlier auction are in place
C18_Witness ==
    /\ fb_pc = "done"
    /\ fb_result.kind = "NoBids"
    /\ Len(fb_responses) = 2
    /\ \A k \in 1..2 :
          /\ fb_responses[k].response.kind = "bid"
          /\ ~fb_responses[k].response.bid.sig_ok
    /\ outstanding_bids # EmptyMap
    /\ latest_pubkey # DefaultPubkey
    /\ latest_pubkey # fb_req.public_key

\* the positions of sel_bids that hold the maximum value of the list
TopPositions ==
    {k \in 1..Len(sel_bids) : \A j \in 1..Len(sel_bids) : sel_bids[j].value <= sel_bids[k].value}

\* C19: every index select_best_bids returns belongs to a pair whose value is
\* the maximum of the list, every pair with the maximum value contributes its
\* index, and the output is empty iff the input is empty.
C19_SelectsTheMaxima ==
    sel_pc = "output" =>
        /\ \A j \in 1..Len(sel_out) : \E k \in TopPositions : sel_bids[k].index = sel_out[j]
        /\ \A k \in TopPositions : \E j \in 1..Len(sel_out) : sel_out[j] = sel_bids[k].index
        /\ Len(sel_out) = Cardinality(TopPositions)
        /\ sel_out = <<>> <=> sel_bids = <<>>

\* a list whose first pair is below the maximum and whose other two pairs
\* share it: the first pair's index is dropped, the other two are returned
C19_Witness ==
    /\ sel_pc = "output"
    /\ Len(sel_bids) = 3
    /\ sel_bids[1].value < sel_bids[2].value
    /\ sel_bids[2].value = sel_bids[3].value
    /\ sel_bids[1].index \notin {sel_bids[2].index, sel_bids[3].index}
    /\ Len(sel_out) = 2

\* the pairs of sel_bids that hold the maximum value, in input order
TopInOrder ==
    LET top(item) == \A j \in 1..Len(sel_bids) : sel_bids[j].value <= item.value
    IN  SelectSeq(sel_bids, top)

\* C20: the sequence select_best_bids returns lists the indices of the
\* maximum-valued pairs in the order of their appearance in the input, once
\* per occurrence.
C20_KeepsInputOrder ==
    sel_pc = "output" => sel_out = [k \in 1..Len(TopInOrder) |-> TopInOrder[k].index]

\* maxima at the first and the last position with a lower pair between them,
\* the larger index first: the output is <<1, 0>>
C20_Witness ==
    /\ sel_pc = "output"
    /\ Len(sel_bids) = 3
    /\ sel_bids[1] = [value |-> 2, index |-> 1]
    /\ sel_bids[2].value < 2
    /\ sel_bids[3] = [value |-> 2, index |-> 0]
    /\ sel_out = <<1, 0>>

\* fetch_best_bid has finished and its only validated bid has value 0
SoleZeroBid ==
    /\ fb_pc = "done"
    /\ Cardinality(ValidatedPositions) = 1
    /\ \A k \in ValidatedPositions : ValidatedBidOf(k).value = 0

\* C21 as claimed: a sole bid of value 0 is not selected: select_best_bids on
\* the single pair (0, index) returns the empty list and fetch_best_bid
\* returns NoBids.
C21_ZeroBidNotSelected ==
    SoleZeroBid =>
        /\ select_best_bids(BidValues(fb_bids)) = <<>>
        /\ fb_result.kind = "NoBids"

\* C21 as the code has it: a sole bid of value 0 equals the initial best value
\* and is selected: select_best_bids on the single pair (0, index) returns
\* <<index>>, and fetch_best_bid does not return NoBids but goes on to read
\* bids[index] as for a sole bid of any other value.
C21_ZeroBidSelected ==
    SoleZeroBid =>
        /\ Len(fb_bids) = 1
        /\ select_best_bids(BidValues(fb_bids)) = <<fb_bids[1].relay_index>>
        /\ fb_result.kind # "NoBids"
        /\ fb_result.kind = "Ok" =>
              /\ fb_result.bid = fb_bids[1].bid
              /\ StillStored => StoredList = <<fb_bids[1].relay_index>>

\* relay 0 alone returned a validated bid, of value 0, and fetch_best_bid
\* returned it
C21_Witness ==
    /\ SoleZeroBid
    /\ fb_result.kind = "Ok"
    /\ fb_result.bid.value = 0
    /\ fb_req \in DOMAIN outstanding_bids

\* the response of relay index in fb_responses
ResponseOf(index) ==
    LET k == CHOOSE j \in 1..Len(fb_responses) : fb_responses[j].relay_index = index
    IN  fb_responses[k].response

\* the tie scenario: fetch_best_bid has finished, R0, R1 and R2 returned
\* validated bids of the same value, R0 and R2 with block hash 1 and R1 with
\* block hash 2
TieScenario ==
    /\ fb_pc = "done"
    /\ Len(relays) = 3
    /\ \E v \in Values :
          /\ ResponseOf(0) = ValidBid(0, v, 1)
          /\ ResponseOf(1) = ValidBid(1, v, 2)
          /\ ResponseOf(2) = ValidBid(2, v, 1)

\* the relay tasks completed in the order of the relay indices
CompletedInIndexOrder ==
    \A k \in 1..Len(fb_responses) : fb_responses[k].relay_index = k - 1

\* C22 as claimed: in the tie scenario, for every outcome of the shuffle,
\* fetch_best_bid returns the bid of R0 or of R2 and the outstanding entry
\* contains exactly {R0, R2}.
C22_TieKeepsMajorityHash ==
    TieScenario =>
        /\ fb_result.kind = "Ok"
        /\ fb_result.bid \in {ResponseOf(0).bid, ResponseOf(2).bid}
        /\ StillStored => Range(StoredList) = {0, 2}

\* C22 as the code has it: the shuffle draws the winner among all three bids,
\* so R1's bid can be returned too; the entry starts with the drawn index and
\* has as many indices as there are bids with the returned bid's block hash;
\* when the relays completed in index order these are exactly the relays that
\* produced those bids: {R0, R2} for a bid of R0 or R2, {R1} for R1's.
C22_TieDrawsAmongAll ==
    TieScenario =>
        /\ fb_result.kind = "Ok"
        /\ fb_result.bid \in {ResponseOf(i).bid : i \in 0..2}
        /\ StillStored =>
           LET stored == StoredList
           IN  /\ Range(stored) \subseteq 0..2
               /\ Cardinality(Range(stored)) = Len(stored)
               /\ Len(stored) = IF fb_result.bid.block_hash = 1 THEN 2 ELSE 1
               /\ CompletedInIndexOrder =>
                     /\ fb_result.bid = ResponseOf(Head(stored)).bid
                     /\ Range(stored) =
                           {i \in 0..2 : ResponseOf(i).bid.block_hash = fb_result.bid.block_hash}

\* the tie scenario with the relays completing in index order and the shuffle
\* drawing R1: R1's bid is returned and the entry is <<1>>
C22_Witness ==
    /\ TieScenario
    /\ CompletedInIndexOrder
    /\ fb_result.kind = "Ok"
    /\ fb_result.bid = ResponseOf(1).bid
    /\ StoredList = <<1>>

\* positions of fb_responses whose relay missed the deadline
TimedOutPositions ==
    {k \in 1..Len(fb_responses) : fb_responses[k].response.kind = "timeout"}

\* C23: when some relays never respond, each of them is classified as a
\* timeout at its deadline and dropped, and fetch_best_bid returns the best
\* bid among the relays that did respond.
C23_BestOfTheResponders ==
    (/\ fb_pc = "done"
     /\ TimedOutPositions # {}
     /\ ValidatedPositions # {})
        => /\ fb_result.kind = "Ok"
           /\ \E k \in ValidatedPositions : ValidatedBidOf(k) = fb_result.bid
           /\ \A k \in ValidatedPositions : ValidatedBidOf(k).value <= fb_result.bid.value

\* fetch_best_bid has written latest_pubkey and not yet inserted its entry
BetweenTheWrites == fb_pc = "keyed"

\* C24: the write of latest_pubkey and the insertion into outstanding_bids by
\* fetch_best_bid are one atomic step for concurrent open_bid and on_slot
\* calls: neither ever reads or changes the state while the key has been set
\* and the entry is not yet inserted, and whenever the lock is free after a
\* successful fetch the key and the entry are both there or both untouched.
C24_WritesUnderOneLock ==
    [][/\ (OpenStep \/ TickStep) => ~BetweenTheWrites
       /\ BetweenTheWrites' => lock' = "fetch_best_bid"
       /\ (BetweenTheWrites /\ ~BetweenTheWrites') =>
             /\ latest_pubkey' = fb_req.public_key
             /\ fb_req \in DOMAIN outstanding_bids'
             /\ outstanding_bids'[fb_req] = fb_result.relay_indices]_vars

\* between the two writes: the key is already the request's, the entry is
\* not in the map, and an open_bid that took the lock before this call did
\* has found no entry
C24_Witness ==
    /\ BetweenTheWrites
    /\ lock = "fetch_best_bid"
    /\ latest_pubkey = fb_req.public_key
    /\ fb_req \notin DOMAIN outstanding_bids
    /\ ob_pc = "done"
    /\ ob_result.kind = "MissingOpenBid"

\* the slots on_slot is applied to in the laws of C25
TickSlots == 0..(MaxSlot + 1)

\* C25: missed slot ticks are tolerated: for the outstanding map at any tick
\* and slots c1 <= c2, on_slot(c1) then on_slot(c2) gives the map on_slot(c2)
\* alone gives, and on_slot(c) twice gives the map on_slot(c) once gives; the
\* tick itself leaves the map any earlier ticks up to it would have led to.
C25_MissedTicksTolerated ==
    [][TickStep =>
          /\ outstanding_bids' = RetainFrom(outstanding_bids, current_slot')
          /\ \A c1 \in 0..current_slot' :
                RetainFrom(RetainFrom(outstanding_bids, c1), current_slot') = outstanding_bids'
          /\ RetainFrom(outstanding_bids', current_slot') = outstanding_bids'
          /\ \A c1 \in TickSlots : \A c2 \in TickSlots :
                c1 <= c2 =>
                   /\ RetainFrom(RetainFrom(outstanding_bids, c1), c2) =
                         RetainFrom(outstanding_bids, c2)
                   /\ RetainFrom(RetainFrom(outstanding_bids, c2), c2) =
                         RetainFrom(outstanding_bids, c2)]_vars

\* a tick has passed over a slot: the entry for slot 1, stored at slot 0, is
\* still there after the tick for slot 2, and the entry for slot 0 is not
C25_Witness ==
    /\ last_fetch.ok
    /\ last_fetch.skipped
    /\ last_fetch.at_slot = 0
    /\ last_fetch.req.slot = 1
    /\ current_slot = 2
    /\ DOMAIN outstanding_bids = {last_fetch.req}

\* positions of fb_responses whose bid fails validation
FailedValidationPositions ==
    {k \in 1..Len(fb_responses) :
        /\ fb_responses[k].response.kind = "bid"
        /\ ~(/\ fb_responses[k].response.bid.public_key =
                    At(relays, fb_responses[k].relay_index)
             /\ fb_responses[k].response.bid.sig_ok)}
\* positions of fb_responses whose relay answered with an error
RelayErrorPositions ==
    {k \in 1..Len(fb_responses) : fb_responses[k].response.kind = "err"}
\* the increments a counter got under one relay label
LabelCount(labels, key) == Cardinality({k \in 1..Len(labels) : labels[k] = key})

\* C26: in one fetch_best_bid call each relay gets exactly one GetHeader
\* request-counter increment and its outcome is in exactly one class:
\* validated bid (retained), bid failing validation (invalid-bid counter +1,
\* dropped), relay error (dropped, no further counter), timeout (timeout
\* counter +1, dropped); so the timeout counter rises by the number of
\* timed-out relays and the invalid-bid counter by the number of bids that
\* failed validation.
C26_OneClassPerRelay ==
    fb_pc = "done" =>
        /\ Len(fb_metrics.requests) = Len(relays)
        /\ \A i \in RelayIndices : LabelCount(fb_metrics.requests, At(relays, i)) = 1
        /\ \A k \in 1..Len(fb_responses) :
              LET key == At(relays, fb_responses[k].relay_index)
                  retained == \E j \in 1..Len(fb_bids) :
                                 fb_bids[j].relay_index = fb_responses[k].relay_index
              IN  /\ Cardinality({c \in {ValidatedPositions, FailedValidationPositions,
                                         RelayErrorPositions, TimedOutPositions} :
                                     k \in c}) = 1
                  /\ retained <=> k \in ValidatedPositions
                  /\ LabelCount(fb_metrics.invalid_bids, key) =
                        (IF k \in FailedValidationPositions THEN 1 ELSE 0)
                  /\ LabelCount(fb_metrics.timeouts, key) =
                        (IF k \in TimedOutPositions THEN 1 ELSE 0)
        /\ Len(fb_bids) = Cardinality(ValidatedPositions)
        /\ Len(fb_metrics.invalid_bids) = Cardinality(FailedValidationPositions)
        /\ Len(fb_metrics.timeouts) = Cardinality(TimedOutPositions)

\* one relay's bid is validated, one relay's bid fails validation, one relay
\* times out: three request increments, one invalid-bid increment, one
\* timeout increment
C26_Witness ==
    /\ fb_pc = "done"
    /\ fb_result.kind = "Ok"
    /\ Cardinality(ValidatedPositions) = 1
    /\ Cardinality(FailedValidationPositions) = 1
    /\ Cardinality(TimedOutPositions) = 1
    /\ Len(fb_metrics.requests) = 3
    /\ Len(fb_metrics.invalid_bids) = 1
    /\ Len(fb_metrics.timeouts) = 1

\* relays whose bid passed validation in the running fetch_best_bid
ValidatedRelays == {fb_responses[k].relay_index : k \in ValidatedPositions}

\* C27: a successful fetch_best_bid for a request that already has an entry
\* replaces that entry unconditionally: afterwards the entry is the relay list
\* computed by this call, made of relays validated in this call only, and
\* every other entry is as it was.
C27_InsertOverwrites ==
    [][(FetchEndStep /\ fb_result'.kind = "Ok") =>
          /\ DOMAIN outstanding_bids' = DOMAIN outstanding_bids \cup {fb_req}
          /\ outstanding_bids'[fb_req] = fb_result'.relay_indices
          /\ Range(outstanding_bids'[fb_req]) \subseteq ValidatedRelays
          /\ \A k \in DOMAIN outstanding_bids \ {fb_req} :
                outstanding_bids'[k] = outstanding_bids[k]]_vars

\* the second call for the same request validated relay 0 only: the entry,
\* which listed both relays, now lists relay 0 alone
C27_Witness ==
    /\ fb_pc = "done"
    /\ fb_result.kind = "Ok"
    /\ last_fetch.req = fb_req
    /\ Range(last_fetch.replaced) = {0, 1}
    /\ fb_req \in DOMAIN outstanding_bids
    /\ outstanding_bids[fb_req] = <<0>>

\* C28: validate_bid returns Ok if and only if the bid's public key equals
\* the relay's advertised key and its signature verifies; when the keys
\* differ it fails with BidPublicKeyMismatch carrying both keys, whether or
\* not the signature would verify.
C28_ValidateBid ==
    vb_pc = "output" =>
        /\ vb_out.kind = "Ok" <=> (vb_bid.public_key = vb_public_key /\ vb_bid.sig_ok)
        /\ vb_bid.public_key # vb_public_key =>
              vb_out = [kind |-> "BidPublicKeyMismatch",
                        bid |-> vb_bid.public_key, relay |-> vb_public_key]
        /\ (vb_bid.public_key = vb_public_key /\ ~vb_bid.sig_ok) =>
              vb_out.kind = "InvalidSignature"

\* a bid stating a foreign key with a signature that does not verify was
\* refused for the key, with both keys in the error
C28_Witness ==
    /\ vb_pc = "output"
    /\ vb_bid.public_key = ForeignKey
    /\ vb_public_key = RelayKey(0)
    /\ ~vb_bid.sig_ok
    /\ vb_out = [kind |-> "BidPublicKeyMismatch", bid |-> ForeignKey, relay |-> RelayKey(0)]

\* this step is the start of an open_bid that finds an entry under its key
OpenFindsStep == OpenStep /\ bid_key_from(ob_block', latest_pubkey) \in DOMAIN outstanding_bids
\* this step is the end of the relay round of an open_bid
OpenEndStep == ob_pc = "waiting" /\ ob_pc' = "done"
\* open_bid takes the entry it finds out of the map before it contacts any
\* relay; returning Ok or MissingPayload it does not put the entry back, so
\* the entry is still out unless a fetch_best_bid stored that key meanwhile
TakesBeforeContacting ==
    /\ OpenFindsStep =>
          /\ outstanding_bids' =
                MapRemove(outstanding_bids, bid_key_from(ob_block', latest_pubkey))
          /\ bid_key_from(ob_block', latest_pubkey) \notin DOMAIN outstanding_bids'
          /\ ob_relay_indices' = outstanding_bids[bid_key_from(ob_block', latest_pubkey)]
          /\ ob_responses' = <<>>
    /\ OpenEndStep =>
          /\ ob_result'.kind \in {"Ok", "MissingPayload"}
          /\ last_open.found /\ last_open.block = ob_block
          /\ outstanding_bids' = outstanding_bids
          /\ ~last_open.refetched => last_open.key \notin DOMAIN outstanding_bids'

\* C29 as stated: open_bid removes the entry it finds before contacting any
\* relay, whether it then returns Ok or MissingPayload; a second open_bid for
\* the same block with no successful fetch_best_bid for that request in
\* between returns MissingOpenBid.
C29_SecondOpenMissingUnlessRefetched ==
    [][/\ TakesBeforeContacting
       /\ (OpenStep /\ last_open.found /\ ob_block' = last_open.block
             /\ ~last_open.refetched) =>
             ob_result'.kind = "MissingOpenBid"]_vars

\* C29, amended: open_bid removes the entry it finds before contacting any
\* relay, whether it then returns Ok or MissingPayload; a second open_bid for
\* the same block with no successful fetch_best_bid at all in between returns
\* MissingOpenBid.
C29_SecondOpenMissingUnlessFetched ==
    [][/\ TakesBeforeContacting
       /\ (OpenStep /\ last_open.found /\ ob_block' = last_open.block
             /\ ~last_open.fetched) =>
             ob_result'.kind = "MissingOpenBid"]_vars

\* the second open_bid for a block whose entry the first one took, with no
\* fetch_best_bid success in between and the clock at slot 0, has returned
\* MissingOpenBid
C29_Witness ==
    /\ ob_pc = "done"
    /\ ob_result.kind = "MissingOpenBid"
    /\ last_open.found
    /\ last_open.block = ob_block
    /\ ~last_open.fetched
    /\ current_slot = 0

\* C30: register_validators calls every configured relay exactly once per
\* invocation and returns only after every one of those calls has settled:
\* while a relay's call is pending it cannot return, and when it has returned
\* there is exactly one response per relay.
C30_WaitsForEveryRelay ==
    /\ rv_pc \in {"waiting", "done"} =>
          /\ RegisterSettled \subseteq RelayIndices
          /\ Cardinality(RegisterSettled) = Len(rv_responses)
    /\ (rv_pc = "waiting" /\ RegisterSettled # RelayIndices) => ~ENABLED RegisterFinish
    /\ rv_pc = "done" =>
          /\ RegisterSettled = RelayIndices
          /\ Len(rv_responses) = Len(relays)

\* the call has returned Ok: each of at least two relays answered once, one
\* of them with an error
C30_Witness ==
    /\ rv_pc = "done"
    /\ rv_result = "Ok"
    /\ Len(relays) >= 2
    /\ RegisterSettled = RelayIndices
    /\ Len(rv_responses) = Len(relays)
    /\ \E k \in 1..Len(rv_responses) : ~rv_responses[k].ok

\* C31 as stated: the ServiceHandle resolves if and only if both background
\* tasks, the slot loop and the HTTP server, have terminated; termination of
\* only one of them does not resolve it.
C31_ResolvesOnlyWhenBothEnded ==
    handle = "resolved" => (relay_task = "finished" /\ server_task = "finished")

\* C31, amended: the ServiceHandle resolves as soon as it is polled after
\* either background task has terminated, with the slot loop's result if that
\* task has terminated and with the server's otherwise; while both tasks run
\* it stays pending.
C31_ResolvesWhenEitherEnded ==
    /\ (relay_task = "running" /\ server_task = "running") =>
          (handle = "pending" /\ ~ENABLED Poll)
    /\ (handle = "pending" /\ (relay_task = "finished" \/ server_task = "finished")) =>
          ENABLED Poll
    /\ handle_result = "relay_mux" => (handle = "resolved" /\ relay_task = "finished")
    /\ handle_result = "server" => (handle = "resolved" /\ server_task = "finished")
    /\ handle = "resolved" => handle_result \in {"relay_mux", "server"}

\* the server has ended and the handle has resolved with its result while
\* the slot loop is still running
C31_Witness ==
    /\ handle = "resolved"
    /\ handle_result = "server"
    /\ server_task = "finished"
    /\ relay_task = "running"

\* C32: open_bid only ever removes the entry keyed by the block's slot and
\* parent hash and latest_pubkey; entries of other proposers for the same slot
\* and parent hash stay as they are, and an entry leaves the map only by such
\* an open_bid or by a slot tick. After successful fetches for proposers A
\* then B, open_bid takes B's entry and A's stays out of its reach while B
\* is the latest key.
C32_OnlyLatestProposersEntry ==
    [][/\ OpenStep =>
            LET key == bid_key_from(ob_block', latest_pubkey)
            IN  /\ DOMAIN outstanding_bids' = DOMAIN outstanding_bids \ {key}
                /\ \A k \in DOMAIN outstanding_bids' :
                      outstanding_bids'[k] = outstanding_bids[k]
                /\ \A k \in DOMAIN outstanding_bids :
                      k.public_key # latest_pubkey => k \in DOMAIN outstanding_bids'
                /\ latest_pubkey' = latest_pubkey
       /\ \A k \in DOMAIN outstanding_bids :
            k \notin DOMAIN outstanding_bids' =>
               \/ TickStep /\ ~Retained(k, current_slot')
               \/ OpenStep /\ k = bid_key_from(ob_block', latest_pubkey)
       /\ latest_pubkey' # latest_pubkey =>
            (FetchEndStep /\ fb_result'.kind = "Ok" /\ latest_pubkey' = fb_req.public_key)]_vars

\* after fetches for proposer 1 then proposer 2, open_bid took the entry of
\* proposer 2; the next open_bid for the same block returned MissingOpenBid
\* while the entry of proposer 1 is still in the map
C32_Witness ==
    /\ ob_pc = "done"
    /\ ob_result.kind = "MissingOpenBid"
    /\ latest_pubkey = 2
    /\ last_open.found
    /\ last_open.key = BidRequest(0, 1, 2)
    /\ last_open.block = ob_block
    /\ DOMAIN outstanding_bids = {BidRequest(0, 1, 1)}

\* the indices select_best_bids returned in the finished fetch_best_bid
SelectedIndices == Range(select_best_bids(BidValues(fb_bids)))

\* C33: within fetch_best_bid every position used to read the bids vector is
\* a valid position of it and holds the bid of the relay whose index was
\* selected, for every subset of relays with a validated bid and every
\* completion order: no call ends in an out-of-bounds read, and the bid
\* returned is the bid of the relay drawn as best.
C33_ReadsTheSelectedRelaysBid ==
    fb_pc = "done" =>
        /\ fb_result.kind # "panic"
        /\ \A i \in SelectedIndices :
              /\ InBounds(fb_bids, i)
              /\ BidAt(fb_bids, i).relay_index = i
        /\ fb_result.kind = "Ok" =>
              /\ fb_result.relay = Head(fb_result.relay_indices)
              /\ fb_result.bid.public_key = At(relays, Head(fb_result.relay_indices))

\* C34: on_slot(c) leaves latest_pubkey unchanged and leaves the relay list of
\* every retained entry unchanged; it adds no entry and performs no relay
\* I/O: the relays and every call in flight are as they were.
C34_OnSlotFrame ==
    [][TickStep =>
          /\ latest_pubkey' = latest_pubkey
          /\ DOMAIN outstanding_bids' \subseteq DOMAIN outstanding_bids
          /\ \A k \in DOMAIN outstanding_bids' : outstanding_bids'[k] = outstanding_bids[k]
          /\ relays' = relays
          /\ fb' = fb
          /\ ob' = ob
          /\ rv' = rv]_vars

\* a tick has been processed after an entry listing two relays was stored:
\* the entry is retained with both relays and the latest key is its proposer
C34_Witness ==
    /\ last_fetch.ok
    /\ last_fetch.at_slot < current_slot
    /\ last_fetch.req \in DOMAIN outstanding_bids
    /\ Len(outstanding_bids[last_fetch.req]) = 2
    /\ latest_pubkey = last_fetch.req.public_key

\* C35: the retention test of on_slot is evaluated without overflow of the
\* slot for every entry fetch_best_bid can insert: on_slot never aborts, and
\* an entry whose request slot is the largest slot is retained by every tick.
C35_NoOverflowAtLastSlot ==
    [][TickStep =>
          /\ relay_task' = relay_task
          /\ \A k \in DOMAIN outstanding_bids :
                k.slot = SlotMaxValue => k \in DOMAIN outstanding_bids']_vars

====
